---- MODULE Spec2Model ----
(***************************************************************************)
(* Stop-and-wait file transfer over a serial link, as implemented by       *)
(* SerialBridge in usb_bridge_session.py.  Machine "A" runs send_files     *)
(* (and, in "both" mode, its own background accept loop on the same        *)
(* handle); machine "B" runs the accept loop _recv_loop.  The link is two  *)
(* byte queues, one per direction; every ser.read / ser.write of the code  *)
(* is one step.                                                            *)
(***************************************************************************)
EXTENDS Integers, Sequences, FiniteSets, TLC

VARIABLES
    mode,       \* "send" or "both": what interactive() runs on machine A
    blocking,   \* blocking[m]: SerialBridge(port, blocking) of machine m
    batch,      \* the files handed to send_files on machine A
    chan,       \* chan[d]: bytes in flight in direction d
    budget,     \* number of link faults this run may see
    faults,     \* number of link faults so far
    snd,        \* state of send_files / _send_file on machine A
    rcv,        \* rcv[r]: state of the accept loop _recv_loop on machine r
    disk,       \* disk[r]: output files of machine r, name -> contents
    app         \* the main thread of machine B and its serial handle

vars == <<mode, blocking, batch, chan, budget, faults, snd, rcv, disk, app>>

----------------------------------------------------------------------------
(* Bounds of the model *)

MaxSize == 3          \* largest file size, in bytes
MaxBatch == 2         \* largest number of files given to send_files
MaxFaults == 1        \* link faults per behaviour
CHUNK == 2            \* chunk size in bytes (4096 in the code, scaled down)
CHUNK_RETRIES == 3    \* per-chunk transmissions (5 in the code, scaled down)
HEADER_RETRIES == 3   \* header transmissions (8 in the code, scaled down)
MaxStray == 5         \* most stray bytes ahead of the first header

----------------------------------------------------------------------------
(* Bytes and the frame codec *)

Min(a, b) == IF a < b THEN a ELSE b

FILE == <<70, 73, 76, 69>>
OK == <<79, 75>>
ACK == <<65, 67, 75>>
NAK == <<78, 65, 75>>
DONE == <<68, 79, 78, 69>>

\* TLC's integers are 32-bit signed: a u32 or u64 of the wire (a sequence
\* number, a checksum, a size) is kept as its big-endian base-256 digits, the
\* bytes struct.pack writes and struct.unpack reads.

\* struct.pack('!B' | '!H' | '!I' | '!Q', n): w bytes, big-endian
RECURSIVE Pack(_, _)
Pack(n, w) == IF w = 0 THEN <<>> ELSE Append(Pack(n \div 256, w - 1), n % 256)

\* struct.unpack('!B' | '!H') of one big-endian unsigned integer
RECURSIVE Unpack(_)
Unpack(bs) ==
    IF bs = <<>> THEN 0
    ELSE 256 * Unpack(SubSeq(bs, 1, Len(bs) - 1)) + bs[Len(bs)]

\* a < b for two u32 given by their digits
Less32(a, b) ==
    \E i \in 1..4 : a[i] < b[i] /\ \A j \in 1..(i - 1) : a[j] = b[j]

\* bitwise exclusive or of two bytes.  (Here and below a value that is used
\* several times is bound by a quantifier, which makes TLC compute it once.)
RECURSIVE XorByte(_, _)
XorByte(a0, b0) ==
    CHOOSE r \in {IF a = 0 THEN b
                  ELSE IF b = 0 THEN a
                  ELSE ((a + b) % 2) + 2 * XorByte(a \div 2, b \div 2) :
                      a \in {a0}, b \in {b0}} : TRUE

Xor32(a, b) ==
    <<XorByte(a[1], b[1]), XorByte(a[2], b[2]),
      XorByte(a[3], b[3]), XorByte(a[4], b[4])>>

\* a u32 shifted right by one bit
Shr32(c) ==
    <<c[1] \div 2,
      (c[1] % 2) * 128 + (c[2] \div 2),
      (c[2] % 2) * 128 + (c[3] \div 2),
      (c[3] % 2) * 128 + (c[4] \div 2)>>

\* the reflected CRC-32 polynomial 0xEDB88320
CrcPoly == <<237, 184, 131, 32>>

\* one bit of the CRC register shifted out
CrcBit(c0) ==
    CHOOSE r \in {IF c[4] % 2 = 1 THEN Xor32(Shr32(c), CrcPoly) ELSE Shr32(c) :
                      c \in {c0}} : TRUE

RECURSIVE CrcBits(_, _)
CrcBits(c, k) == IF k = 0 THEN c ELSE CrcBit(CrcBits(c, k - 1))

\* the CRC register after one more byte
CrcByte(c0, b) ==
    CHOOSE r \in {CrcBits(<<c[1], c[2], c[3], XorByte(c[4], b)>>, 8) :
                      c \in {c0}} : TRUE

\* the CRC register c after the bytes bs[lo..hi], folded left to right (the
\* range is halved to keep TLC's evaluation stack shallow)
RECURSIVE CrcUpdate(_, _, _, _)
CrcUpdate(c, bs, lo, hi) ==
    IF lo > hi THEN c
    ELSE IF lo = hi THEN CrcByte(c, bs[lo])
    ELSE CHOOSE r \in {CrcUpdate(left, bs, (lo + hi) \div 2 + 1, hi) :
                           left \in {CrcUpdate(c, bs, lo, (lo + hi) \div 2)}} : TRUE

\* struct.pack('!I', zlib.crc32(data) & 0xFFFFFFFF)
crc32(bs) ==
    Xor32(CrcUpdate(<<255, 255, 255, 255>>, bs, 1, Len(bs)), <<255, 255, 255, 255>>)

StartsWith(bs, p) == Len(bs) >= Len(p) /\ SubSeq(bs, 1, Len(p)) = p

\* bytes.decode(errors='ignore') on the names of the model: bytes that are
\* not ASCII are dropped
Decode(bs) == SelectSeq(bs, LAMBDA b : b < 128)

\* hdr of _send_file
HeaderFrame(name, size) == FILE \o Pack(Len(name), 1) \o name \o Pack(size, 8)

\* pkt of _send_file
ChunkFrame(seq, data) ==
    Pack(seq, 4) \o Pack(Len(data), 2) \o data \o crc32(data)

\* b'ACK' + struct.pack('!I', seq), seq given by its digits
AckFrame(seq) == ACK \o seq
NakFrame(seq) == NAK \o seq

----------------------------------------------------------------------------
(* The serial link *)

Machines == {"A", "B"}
Dirs == {"ab", "ba"}

\* the direction machine m reads from / writes to
In(m) == IF m = "B" THEN "ab" ELSE "ba"
Out(m) == IF m = "B" THEN "ba" ELSE "ab"

\* one bit of a byte flipped in transit
Flip(b) == IF b % 2 = 0 THEN b + 1 ELSE b - 1

\* What the link delivers of a written frame: the frame, or (a fault) the
\* frame cut short at some byte, or the frame with one byte corrupted.
LinkOutcomes(frame) ==
    {frame} \cup
    (IF faults < budget
     THEN {SubSeq(frame, 1, i - 1) : i \in 1..Len(frame)} \cup
          {[frame EXCEPT ![i] = Flip(@)] : i \in 1..Len(frame)}
     ELSE {})

\* ser.write(frame) by machine m
Write(m, frame, deliv, ch) == [ch EXCEPT ![Out(m)] = @ \o deliv]

\* ser.read(n) by machine m returns once n bytes have arrived, or, with a
\* read timeout (blocking = False), with the bytes that did arrive
PortOpen(m) == m = "B" => app.ser = "open"
CanRead(m, n) == PortOpen(m) /\ (~blocking[m] \/ Len(chan[In(m)]) >= n)
ReadBytes(m, n) == SubSeq(chan[In(m)], 1, Min(n, Len(chan[In(m)])))
AfterRead(m, n) ==
    [chan EXCEPT ![In(m)] = SubSeq(@, Min(n, Len(@)) + 1, Len(@))]

----------------------------------------------------------------------------
(* The sender: send_files and _send_file on machine A *)

\* The bytes of file number k when it is size bytes long
Content(k, size) == [i \in 1..size |-> 16 * k + i]

\* The file paths of the model: file k is named by the one byte 96 + k
FileOf(k, size) == [name |-> <<96 + k>>, content |-> Content(k, size)]

RECURSIVE Sum(_)
Sum(sizes) == IF sizes = <<>> THEN 0 ELSE Head(sizes) + Sum(Tail(sizes))

\* The batches of the model: up to MaxBatch files of MaxSize bytes in total
Batches ==
    {sizes \in UNION {[1..n -> 0..MaxSize] : n \in 1..MaxBatch} :
        Sum(sizes) <= MaxSize}

BatchOf(sizes) == [k \in DOMAIN sizes |-> FileOf(k, sizes[k])]

CurFile == batch[snd.idx]

\* a variant of IsOK that takes no reply for the OK
IsOK_never(resp) == FALSE

\* line 83: the handshake reply that ends the header loop
IsOK(resp) == resp = OK

\* a variant of LastAttempt that allows one attempt more
LastAttempt_offByOne(attempt, retries) == attempt + 1 > retries

\* a variant of LastAttempt that never gives up
LastAttempt_never(attempt, retries) == FALSE

\* lines 79, 98: range(retries) is used up after this attempt
LastAttempt(attempt, retries) == attempt + 1 >= retries

\* a variant of ChunkReply that takes every reply that is not empty for the ACK
ChunkReply_anyReply(ack, seq) == IF ack = <<>> THEN "retry" ELSE "advance"

\* a variant of ChunkReply that takes a NAK for the ACK
ChunkReply_nakAdvances(ack, seq) ==
    IF ack = <<>> THEN "retry"
    ELSE IF StartsWith(ack, NAK) THEN "advance"
    ELSE IF SubSeq(ack, 4, 7) = Pack(seq, 4) THEN "advance" ELSE "retry"

\* lines 101-120: what _send_file does with the chunk reply ack
\*   "advance": ACK of the current sequence; "error": struct.unpack raises on
\*   an ACK reply shorter than 7 bytes; "retry": anything else
ChunkReply(ack, seq) ==
    IF ack = <<>> THEN "retry"
    ELSE IF StartsWith(ack, ACK)
         THEN IF Len(ack) < 7 THEN "error"
              ELSE IF SubSeq(ack, 4, 7) = Pack(seq, 4) THEN "advance" ELSE "retry"
         ELSE "retry"

\* lines 114-116: a complete reply that starts with 'NAK'
IsNak(ack) == Len(ack) = 7 /\ StartsWith(ack, NAK)

\* send_files, lines 64-71: the exception of _send_file is printed and the
\* loop goes on with the next file
FileOver(outcome) ==
    [snd EXCEPT !.pc = "next", !.idx = @ + 1,
                !.results = Append(@, [name |-> CurFile.name,
                                       outcome |-> outcome,
                                       sent |-> snd.sent,
                                       hdrWrites |-> snd.hdrWrites,
                                       chunkFrames |-> snd.lastWritten + 1,
                                       naks |-> snd.naks,
                                       odd |-> snd.odd])]

\* send_files, lines 57-65, and _send_file, lines 74-76
NextFile ==
    /\ snd.pc = "next"
    /\ snd' = IF snd.idx > Len(batch)
              THEN [snd EXCEPT !.pc = "finished"]
              ELSE [snd EXCEPT !.pc = "hdr_write", !.attempt = 0, !.seq = 0,
                               !.sent = 0, !.pos = 0, !.data = <<>>,
                               !.pkt = <<>>, !.hdrWrites = 0, !.chunkWrites = 0,
                               !.lastWritten = -1, !.acksRead = {},
                               !.sawOK = FALSE, !.naks = 0, !.odd = FALSE,
                               !.writes = 0]
    /\ UNCHANGED <<app, mode, blocking, batch, budget, chan, faults, rcv, disk>>

\* _send_file, line 80
WriteHeader ==
    /\ snd.pc = "hdr_write"
    /\ \E deliv \in LinkOutcomes(HeaderFrame(CurFile.name, Len(CurFile.content))) :
          /\ chan' = Write("A", HeaderFrame(CurFile.name, Len(CurFile.content)), deliv, chan)
          /\ faults' = IF deliv = HeaderFrame(CurFile.name, Len(CurFile.content))
                       THEN faults ELSE faults + 1
    /\ snd' = [snd EXCEPT !.pc = "hdr_read", !.hdrWrites = @ + 1]
    /\ UNCHANGED <<app, mode, blocking, batch, budget, rcv, disk>>

\* _send_file, lines 82-90
ReadOK ==
    /\ snd.pc = "hdr_read"
    /\ CanRead("A", 2)
    /\ chan' = AfterRead("A", 2)
    /\ snd' = IF IsOK(ReadBytes("A", 2))
              THEN [snd EXCEPT !.pc = "fread", !.sent = 0, !.seq = 0,
                               !.sawOK = TRUE]
              ELSE IF LastAttempt(snd.attempt, HEADER_RETRIES)
                   THEN FileOver("no_ok")
                   ELSE [snd EXCEPT !.pc = "hdr_write", !.attempt = @ + 1,
                                    !.odd = TRUE]
    /\ UNCHANGED <<app, mode, blocking, batch, budget, faults, rcv, disk>>

\* a variant of EndOfFile that never sees the end
EndOfFile_never(data) == FALSE

\* lines 95-96: f.read returned nothing
EndOfFile(data) == data = <<>>

\* _send_file, lines 94-98
FileRead ==
    /\ snd.pc = "fread"
    /\ LET data == SubSeq(CurFile.content, snd.pos + 1,
                          Min(snd.pos + CHUNK, Len(CurFile.content)))
       IN snd' = IF EndOfFile(data)
                 THEN [snd EXCEPT !.pc = "done_write", !.data = <<>>, !.pkt = <<>>]
                 ELSE [snd EXCEPT !.pc = "chunk_write", !.data = data,
                                  !.pkt = ChunkFrame(snd.seq, data),
                                  !.pos = @ + Len(data), !.attempt = 0,
                                  !.chunkWrites = 0]
    /\ UNCHANGED <<app, mode, blocking, batch, budget, chan, faults, rcv, disk>>

\* _send_file, line 99
WriteChunk ==
    /\ snd.pc = "chunk_write"
    /\ \E deliv \in LinkOutcomes(snd.pkt) :
          /\ chan' = Write("A", snd.pkt, deliv, chan)
          /\ faults' = IF deliv = snd.pkt THEN faults ELSE faults + 1
    /\ snd' = [snd EXCEPT !.pc = "ack_read", !.chunkWrites = @ + 1,
                          !.writes = @ + 1, !.lastWritten = snd.seq]
    /\ UNCHANGED <<app, mode, blocking, batch, budget, rcv, disk>>

\* _send_file, lines 100-123
ReadAck ==
    /\ snd.pc = "ack_read"
    /\ CanRead("A", 7)
    /\ chan' = AfterRead("A", 7)
    /\ LET ack == ReadBytes("A", 7)
           seen == IF Len(ack) = 7 /\ StartsWith(ack, ACK)
                   THEN snd.acksRead \cup {SubSeq(ack, 4, 7)} ELSE snd.acksRead
           reply == ChunkReply(ack, snd.seq)
       IN snd' = IF reply = "advance"
                 THEN [snd EXCEPT !.pc = "fread", !.sent = @ + Len(snd.data),
                                  !.seq = @ + 1, !.acksRead = seen,
                                  !.naks = IF IsNak(ack) THEN @ + 1 ELSE @]
                 ELSE IF reply = "error"
                 THEN [FileOver("struct_error") EXCEPT !.acksRead = seen]
                 ELSE IF LastAttempt(snd.attempt, CHUNK_RETRIES)
                 THEN [FileOver("chunk_failed") EXCEPT !.acksRead = seen]
                 ELSE [snd EXCEPT !.pc = "chunk_write", !.attempt = @ + 1,
                                  !.acksRead = seen,
                                  !.naks = IF IsNak(ack) THEN @ + 1 ELSE @,
                                  !.odd = @ \/ ~IsNak(ack)]
    /\ UNCHANGED <<app, mode, blocking, batch, budget, faults, rcv, disk>>

\* _send_file, lines 126-132
WriteDone ==
    /\ snd.pc = "done_write"
    /\ \E deliv \in LinkOutcomes(DONE) :
          /\ chan' = Write("A", DONE, deliv, chan)
          /\ faults' = IF deliv = DONE THEN faults ELSE faults + 1
    /\ snd' = FileOver("sent")
    /\ UNCHANGED <<app, mode, blocking, batch, budget, rcv, disk>>

Sender == NextFile \/ WriteHeader \/ ReadOK \/ FileRead \/ WriteChunk
          \/ ReadAck \/ WriteDone

----------------------------------------------------------------------------
(* The receiver: the accept loop _recv_loop on machine r *)

\* ser.read(n) and then ser.write(frame) by machine m, in one step
ReadThenWrite(m, n, frame) ==
    \E deliv \in LinkOutcomes(frame) :
       /\ chan' = Write(m, frame, deliv, AfterRead(m, n))
       /\ faults' = IF deliv = frame THEN faults ELSE faults + 1

\* line 171: open(outpath, 'wb') raises for a name that is no file name
\* (the empty name is outdir itself, a NUL byte is refused)
OpenFails(name) == name = <<>> \/ \E i \in 1..Len(name) : name[i] = 0

\* a variant of ChecksumOk that does not compare the checksum
ChecksumOk_accept(data, crc_raw) == TRUE

\* line 196: the checksum test of a completely read chunk frame
ChecksumOk(data, crc_raw) == crc32(data) = crc_raw

\* line 191: the payload or the checksum was read short
ShortFrame(data, length, crc_raw) == Len(data) # length \/ Len(crc_raw) # 4

\* a variant of IsDone that never sees the end marker
IsDone_never(peek) == FALSE

\* line 177: the end marker
IsDone(peek) == peek = DONE

\* a variant of Append2File that writes the payload twice
Append2File_twice(d, r, name, data) == [d EXCEPT ![r][name] = @ \o data \o data]

\* a variant of Append2File that writes nothing
Append2File_skip(d, r, name, data) == d

\* line 197: f.write(data) on the open output file
Append2File(d, r, name, data) == [d EXCEPT ![r][name] = @ \o data]

\* start_recv_loop, lines 136-142
StartRecvLoop(r) ==
    /\ rcv[r].pc = "off"
    /\ r = "A" => mode = "both"
    /\ rcv' = [rcv EXCEPT ![r].pc = "loop", ![r].recv_stop = FALSE]
    /\ UNCHANGED <<app, mode, blocking, batch, budget, chan, faults, snd, disk>>

\* line 144: while not self.recv_stop.is_set()
LoopCheck(r) ==
    /\ rcv[r].pc = "loop"
    /\ rcv' = [rcv EXCEPT ![r].pc = IF rcv[r].recv_stop THEN "stopped" ELSE "hdr"]
    /\ UNCHANGED <<app, mode, blocking, batch, budget, chan, faults, snd, disk>>

\* lines 146-152
ReadMagic(r) ==
    /\ rcv[r].pc = "hdr"
    /\ CanRead(r, 4)
    /\ chan' = AfterRead(r, 4)
    /\ rcv' = [rcv EXCEPT ![r].pc = IF ReadBytes(r, 4) = FILE THEN "ln" ELSE "loop",
                          ![r].nameShort = FALSE,
                          ![r].last = IF ReadBytes(r, 4) = FILE THEN "magic"
                                      ELSE IF ReadBytes(r, 4) = <<>> THEN @
                                      ELSE "stray"]
    /\ UNCHANGED <<app, mode, blocking, batch, budget, faults, snd, disk>>

\* lines 155-158
ReadLen(r) ==
    /\ rcv[r].pc = "ln"
    /\ CanRead(r, 1)
    /\ chan' = AfterRead(r, 1)
    /\ rcv' = IF ReadBytes(r, 1) = <<>>
              THEN [rcv EXCEPT ![r].pc = "loop", ![r].last = "short_header"]
              ELSE [rcv EXCEPT ![r].pc = "name", ![r].ln = Unpack(ReadBytes(r, 1))]
    /\ UNCHANGED <<app, mode, blocking, batch, budget, faults, snd, disk>>

\* line 159
ReadName(r) ==
    /\ rcv[r].pc = "name"
    /\ CanRead(r, rcv[r].ln)
    /\ chan' = AfterRead(r, rcv[r].ln)
    /\ rcv' = [rcv EXCEPT ![r].pc = "size", ![r].ln = 0,
                          ![r].nameShort = Len(ReadBytes(r, rcv[r].ln)) < rcv[r].ln,
                          ![r].name = Decode(ReadBytes(r, rcv[r].ln))]
    /\ UNCHANGED <<app, mode, blocking, batch, budget, faults, snd, disk>>

\* lines 160-171: the size (used for the progress display only, and not kept
\* here), the OK reply, and the output file opened
ReadSize(r) ==
    /\ rcv[r].pc = "size"
    /\ CanRead(r, 8)
    /\ LET size_b == ReadBytes(r, 8) IN
       IF Len(size_b) < 8
       THEN /\ chan' = AfterRead(r, 8)
            /\ rcv' = [rcv EXCEPT ![r].pc = "loop", ![r].nameShort = FALSE,
                                  ![r].last = "short_header"]
            /\ UNCHANGED <<faults, disk>>
       ELSE \E deliv \in LinkOutcomes(OK) :
            /\ chan' = Write(r, OK, deliv, AfterRead(r, 8))
            /\ faults' = IF deliv = OK THEN faults ELSE faults + 1
            /\ IF OpenFails(rcv[r].name)
               THEN /\ rcv' = [rcv EXCEPT ![r].pc = "raised",
                                          ![r].nameShort = FALSE,
                                          ![r].received = 0,
                                          ![r].okLost = (deliv = <<>>),
                                          ![r].last = "open_failed"]
                    /\ UNCHANGED disk
               ELSE /\ rcv' = [rcv EXCEPT ![r].pc = "peek",
                                          ![r].nameShort = FALSE,
                                          ![r].received = 0,
                                          ![r].isOpen = TRUE,
                                          ![r].written = <<>>,
                                          ![r].acked = <<>>,
                                          ![r].okLost = (deliv = <<>>),
                                          ![r].last = "ok"]
                    /\ disk' = [disk EXCEPT ![r] =
                                  [n \in DOMAIN @ \cup {rcv[r].name} |->
                                      IF n = rcv[r].name THEN <<>> ELSE @[n]]]
    /\ UNCHANGED <<app, mode, blocking, batch, budget, snd>>

\* lines 174-179 and 203-207
ReadPeek(r) ==
    /\ rcv[r].pc = "peek"
    /\ CanRead(r, 4)
    /\ chan' = AfterRead(r, 4)
    /\ LET peek == ReadBytes(r, 4) IN
       rcv' = IF peek = <<>> THEN rcv
              ELSE IF IsDone(peek)
              THEN [rcv EXCEPT ![r].pc = "loop", ![r].isOpen = FALSE,
                               ![r].closed = Append(@, rcv[r].name),
                               ![r].last = "done"]
              ELSE [rcv EXCEPT ![r].pc = "rest", ![r].peek = peek]
    /\ UNCHANGED <<app, mode, blocking, batch, budget, faults, snd, disk>>

\* lines 182-187
ReadRest(r) ==
    /\ rcv[r].pc = "rest"
    /\ CanRead(r, 2)
    /\ chan' = AfterRead(r, 2)
    /\ LET rest_hdr == ReadBytes(r, 2)
           hdr2 == rcv[r].peek \o rest_hdr
       IN rcv' = IF Len(rest_hdr) < 2
                 THEN [rcv EXCEPT ![r].pc = "peek", ![r].peek = <<>>,
                                  ![r].last = "short_chunk_header"]
                 ELSE IF Len(hdr2) # 6
                 THEN [rcv EXCEPT ![r].pc = "raised", ![r].peek = <<>>,
                                  ![r].isOpen = FALSE,
                                  ![r].last = "struct_error"]
                 ELSE [rcv EXCEPT ![r].pc = "data", ![r].peek = <<>>,
                                  ![r].seq = SubSeq(hdr2, 1, 4),
                                  ![r].length = Unpack(SubSeq(hdr2, 5, 6))]
    /\ UNCHANGED <<app, mode, blocking, batch, budget, faults, snd, disk>>

\* line 189
ReadData(r) ==
    /\ rcv[r].pc = "data"
    /\ CanRead(r, rcv[r].length)
    /\ chan' = AfterRead(r, rcv[r].length)
    /\ rcv' = [rcv EXCEPT ![r].pc = "crc",
                          ![r].data = ReadBytes(r, rcv[r].length)]
    /\ UNCHANGED <<app, mode, blocking, batch, budget, faults, snd, disk>>

\* lines 190-202
ReadCrc(r) ==
    /\ rcv[r].pc = "crc"
    /\ CanRead(r, 4)
    /\ LET crc_raw == ReadBytes(r, 4)
           me == rcv[r]
       IN IF ShortFrame(me.data, me.length, crc_raw)
          THEN /\ ReadThenWrite(r, 4, NakFrame(me.seq))
               /\ rcv' = [rcv EXCEPT ![r].pc = "peek", ![r].data = <<>>,
                                     ![r].seq = <<>>, ![r].length = 0,
                                     ![r].last = "nak_short"]
               /\ UNCHANGED disk
          ELSE IF ChecksumOk(me.data, crc_raw)
          THEN /\ ReadThenWrite(r, 4, AckFrame(me.seq))
               /\ disk' = Append2File(disk, r, me.name, me.data)
               /\ rcv' = [rcv EXCEPT ![r].pc = "peek", ![r].data = <<>>,
                                     ![r].seq = <<>>, ![r].length = 0,
                                     ![r].received = @ + me.length,
                                     ![r].written = Append(@, me.seq),
                                     ![r].acked = Append(@, me.seq),
                                     ![r].last = IF \E i \in 1..Len(me.written) :
                                                        me.written[i] = me.seq
                                                 THEN "ack_again" ELSE "ack"]
          ELSE /\ ReadThenWrite(r, 4, NakFrame(me.seq))
               /\ rcv' = [rcv EXCEPT ![r].pc = "peek", ![r].data = <<>>,
                                     ![r].seq = <<>>, ![r].length = 0,
                                     ![r].last = "nak_crc"]
               /\ UNCHANGED disk
    /\ UNCHANGED <<app, mode, blocking, batch, budget, snd>>

Receiver(r) == StartRecvLoop(r) \/ LoopCheck(r) \/ ReadMagic(r) \/ ReadLen(r)
               \/ ReadName(r) \/ ReadSize(r) \/ ReadPeek(r) \/ ReadRest(r)
               \/ ReadData(r) \/ ReadCrc(r)

----------------------------------------------------------------------------
(* The system *)

RcvInit ==
    [pc |-> "off", recv_stop |-> FALSE, ln |-> 0, name |-> <<>>,
     received |-> 0, peek |-> <<>>, seq |-> <<>>, length |-> 0, data |-> <<>>,
     isOpen |-> FALSE, okLost |-> FALSE, nameShort |-> FALSE,
     written |-> <<>>, acked |-> <<>>, closed |-> <<>>, last |-> "none"]

SndInit ==
    [pc |-> "next", idx |-> 1, attempt |-> 0, seq |-> 0, sent |-> 0, pos |-> 0,
     data |-> <<>>, pkt |-> <<>>, hdrWrites |-> 0, chunkWrites |-> 0, lastWritten |-> -1,
     acksRead |-> {}, sawOK |-> FALSE, naks |-> 0, odd |-> FALSE,
     writes |-> 0,
     results |-> <<>>]

\* interactive(), lines 230-241: the bridge is open and the main thread of
\* machine B sleeps until it is interrupted
AppInit == [pc |-> "run", ser |-> "open"]

\* Link faults are explored for the single-file batches, with at most one of
\* the two machines on read timeouts
FaultBudget(b, files) ==
    IF Len(files) = 1 /\ (b["A"] \/ b["B"]) THEN MaxFaults ELSE 0

Start(m) ==
    /\ mode = m
    /\ blocking \in [Machines -> BOOLEAN]
    /\ batch \in {BatchOf(sizes) : sizes \in Batches}
    /\ chan = [d \in Dirs |-> <<>>]
    /\ faults = 0
    /\ snd = SndInit
    /\ rcv = [r \in Machines |-> RcvInit]
    /\ disk = [r \in Machines |-> <<>>]
    /\ app = AppInit

\* interactive() in mode 'send' on machine A, in mode 'recv' on machine B
Init ==
    /\ Start("send")
    /\ budget = FaultBudget(blocking, batch)

Next ==
    \/ Sender
    \/ \E r \in Machines : Receiver(r)

Spec == Init /\ [][Next]_vars

----------------------------------------------------------------------------
(* 'both' mode: the accept loop of machine A runs beside send_files *)

\* interactive(), lines 259-274: start_recv_loop, then send_files on the same
\* handle; machine B runs the accept loop only
InitBoth ==
    /\ Start("both")
    /\ Len(batch) = 1
    /\ budget = 0

SpecBoth == InitBoth /\ [][Next]_vars

----------------------------------------------------------------------------
(* Stray bytes ahead of the first header *)

\* noise that reached machine B's input before the sender wrote anything
Strays == {[i \in 1..n |-> 88] : n \in 0..MaxStray}

\* as Init, with stray bytes on the link towards machine B
InitStray ==
    /\ mode = "send"
    /\ blocking \in [Machines -> BOOLEAN]
    /\ batch \in {BatchOf(sizes) : sizes \in Batches}
    /\ Len(batch) = 1
    /\ chan \in {[d \in Dirs |-> IF d = "ab" THEN s ELSE <<>>] : s \in Strays}
    /\ faults = 0
    /\ budget = 0
    /\ snd = SndInit
    /\ rcv = [r \in Machines |-> RcvInit]
    /\ disk = [r \in Machines |-> <<>>]
    /\ app = AppInit

SpecStray == InitStray /\ [][Next]_vars

----------------------------------------------------------------------------

(* Repeated corruption: one file, both bridges opened as SerialBridge(port),
   one link fault more than in Init *)

InitNak ==
    /\ Start("send")
    /\ Len(batch) = 1
    /\ blocking["A"] /\ blocking["B"]
    /\ budget = MaxFaults + 1

SpecNak == InitNak /\ [][Next]_vars

----------------------------------------------------------------------------

(* usb_bridge_transfer.py: recv on machine B, send on machine A.  send is  *)
(* _send_file for one file on a bridge with read timeouts (the same header *)
(* and chunk loops, lines 42-69 of usb_bridge_transfer.py), so Sender      *)
(* stands for it; recv is modelled here.                                   *)

\* the first position at which p occurs in bs, 0 if there is none
Find(bs, p) ==
    LET hits == {i \in 1..(Len(bs) - Len(p) + 1) :
                    SubSeq(bs, i, i + Len(p) - 1) = p}
    IN IF hits = {} THEN 0 ELSE CHOOSE i \in hits : \A j \in hits : i <= j

\* bytes.decode() of usb_bridge_transfer.py line 92 raises on the bytes of
\* the model that are not ASCII
DecodeFails(bs) == \E i \in 1..Len(bs) : bs[i] >= 128

\* recv, lines 72-75
TOpen ==
    /\ rcv["B"].pc = "off"
    /\ rcv' = [rcv EXCEPT !["B"].pc = "t_scan"]
    /\ UNCHANGED <<app, mode, blocking, batch, budget, chan, faults, snd, disk>>

\* recv, lines 76-97: bytes are read one by one until 'FILE' was seen and the
\* header fields that follow it are complete; then OK, and the output file
TScan ==
    /\ rcv["B"].pc = "t_scan"
    /\ LET inb == chan["ab"]
           i == Find(inb, FILE)
           ln == inb[i + 4]
           last == i + 4 + ln + 8
           name == SubSeq(inb, i + 5, i + 4 + ln)
           left == [chan EXCEPT !["ab"] = SubSeq(inb, last + 1, Len(inb))]
       IN /\ i > 0
          /\ Len(inb) >= i + 4
          /\ Len(inb) >= last
          /\ IF DecodeFails(name)
             THEN /\ chan' = left
                  /\ rcv' = [rcv EXCEPT !["B"].pc = "raised",
                                        !["B"].last = "decode_failed"]
                  /\ UNCHANGED <<faults, disk>>
             ELSE \E deliv \in LinkOutcomes(OK) :
                  /\ chan' = Write("B", OK, deliv, left)
                  /\ faults' = IF deliv = OK THEN faults ELSE faults + 1
                  /\ IF OpenFails(name)
                     THEN /\ rcv' = [rcv EXCEPT !["B"].pc = "raised",
                                                !["B"].name = name,
                                                !["B"].last = "open_failed"]
                          /\ UNCHANGED disk
                     ELSE /\ rcv' = [rcv EXCEPT !["B"].pc = "t_peek",
                                                !["B"].name = name,
                                                !["B"].received = 0,
                                                !["B"].isOpen = TRUE,
                                                !["B"].last = "ok"]
                          /\ disk' = [disk EXCEPT !["B"] =
                                        [n \in DOMAIN @ \cup {name} |->
                                            IF n = name THEN <<>> ELSE @[n]]]
    /\ UNCHANGED <<app, mode, blocking, batch, budget, snd>>

\* recv, lines 80-81: no 'FILE' within 20 seconds
TGiveUp ==
    /\ rcv["B"].pc = "t_scan"
    /\ Find(chan["ab"], FILE) = 0
    /\ chan' = [chan EXCEPT !["ab"] = <<>>]
    /\ rcv' = [rcv EXCEPT !["B"].pc = "stopped", !["B"].last = "no_header"]
    /\ UNCHANGED <<app, mode, blocking, batch, budget, faults, snd, disk>>

\* recv, lines 100-106
TPeek ==
    /\ rcv["B"].pc = "t_peek"
    /\ CanRead("B", 6)
    /\ chan' = AfterRead("B", 6)
    /\ LET hdr == ReadBytes("B", 6) IN
       rcv' = IF hdr = <<>> THEN rcv
              ELSE IF IsDone(hdr)
              THEN [rcv EXCEPT !["B"].pc = "stopped", !["B"].isOpen = FALSE,
                               !["B"].closed = Append(@, rcv["B"].name),
                               !["B"].last = "done"]
              ELSE IF Len(hdr) < 6
              THEN [rcv EXCEPT !["B"].last = "short_chunk_header"]
              ELSE [rcv EXCEPT !["B"].pc = "t_data",
                               !["B"].seq = SubSeq(hdr, 1, 4),
                               !["B"].length = Unpack(SubSeq(hdr, 5, 6))]
    /\ UNCHANGED <<app, mode, blocking, batch, budget, faults, snd, disk>>

\* recv, line 107
TData ==
    /\ rcv["B"].pc = "t_data"
    /\ CanRead("B", rcv["B"].length)
    /\ chan' = AfterRead("B", rcv["B"].length)
    /\ rcv' = [rcv EXCEPT !["B"].pc = "t_crc",
                          !["B"].data = ReadBytes("B", rcv["B"].length)]
    /\ UNCHANGED <<app, mode, blocking, batch, budget, faults, snd, disk>>

\* recv, lines 108-115: struct.unpack('!I', crc_raw) raises on a checksum
\* read short, and nothing catches it
TCrc ==
    /\ rcv["B"].pc = "t_crc"
    /\ CanRead("B", 4)
    /\ LET crc_raw == ReadBytes("B", 4)
           me == rcv["B"]
       IN IF Len(crc_raw) # 4
          THEN /\ chan' = AfterRead("B", 4)
               /\ rcv' = [rcv EXCEPT !["B"].pc = "raised", !["B"].data = <<>>,
                                     !["B"].isOpen = FALSE,
                                     !["B"].last = "struct_error"]
               /\ UNCHANGED <<faults, disk>>
          ELSE IF ChecksumOk(me.data, crc_raw)
          THEN /\ ReadThenWrite("B", 4, AckFrame(me.seq))
               /\ disk' = Append2File(disk, "B", me.name, me.data)
               /\ rcv' = [rcv EXCEPT !["B"].pc = "t_peek", !["B"].data = <<>>,
                                     !["B"].seq = <<>>, !["B"].length = 0,
                                     !["B"].received = @ + me.length,
                                     !["B"].written = Append(@, me.seq),
                                     !["B"].acked = Append(@, me.seq),
                                     !["B"].last = "ack"]
          ELSE /\ ReadThenWrite("B", 4, NakFrame(me.seq))
               /\ rcv' = [rcv EXCEPT !["B"].pc = "t_peek", !["B"].data = <<>>,
                                     !["B"].seq = <<>>, !["B"].length = 0,
                                     !["B"].last = "nak_crc"]
               /\ UNCHANGED disk
    /\ UNCHANGED <<app, mode, blocking, batch, budget, snd>>

TRecv == TOpen \/ TScan \/ TGiveUp \/ TPeek \/ TData \/ TCrc

\* both programs open the port with timeout=TO (lines 37 and 72)
InitTransfer ==
    /\ Start("send")
    /\ Len(batch) = 1
    /\ ~blocking["A"] /\ ~blocking["B"]
    /\ budget = 0

NextTransfer == Sender \/ TRecv

SpecTransfer == InitTransfer /\ [][NextTransfer]_vars

----------------------------------------------------------------------------

(* Sending one file on a bridge whose reads time out (timeout=1, line 35), *)
(* with the thread of send_files scheduled whenever it can take a step.    *)
(* The peer reads without timeouts and answers at its own pace, or never.  *)

InitSend ==
    /\ Start("send")
    /\ Len(batch) = 1
    /\ ~blocking["A"] /\ blocking["B"]
    /\ budget = MaxFaults

SpecSend == InitSend /\ [][Next]_vars

FairSend == SpecSend /\ WF_vars(Sender)

----------------------------------------------------------------------------

(* One file of one chunk at most between two bridges that both read with   *)
(* timeouts, on a link                                                     *)
(* that damages or cuts up to MaxFaults frames.                            *)

InitTimeouts ==
    /\ Start("send")
    /\ Len(batch) = 1
    /\ Len(batch[1].content) <= CHUNK
    /\ ~blocking["A"] /\ ~blocking["B"]
    /\ budget = MaxFaults

SpecTimeouts == InitTimeouts /\ [][Next]_vars

----------------------------------------------------------------------------

(* usb_bridge_app.py: recv on machine B, send on machine A, both with      *)
(* timeout=None.  send (lines 17-59) is _send_file for one file on a       *)
(* bridge with blocking reads, so Sender stands for it; recv is modelled   *)
(* here.                                                                   *)

\* recv, lines 62-71: the port is opened and its buffers are emptied
AOpen ==
    /\ rcv["B"].pc = "off"
    /\ chan' = [chan EXCEPT !["ab"] = <<>>]
    /\ rcv' = [rcv EXCEPT !["B"].pc = "a_hdr"]
    /\ UNCHANGED <<app, mode, blocking, batch, budget, faults, snd, disk>>

\* recv, lines 73-75
AMagic ==
    /\ rcv["B"].pc = "a_hdr"
    /\ CanRead("B", 4)
    /\ chan' = AfterRead("B", 4)
    /\ rcv' = IF ReadBytes("B", 4) = FILE
              THEN [rcv EXCEPT !["B"].pc = "a_ln", !["B"].last = "magic"]
              ELSE [rcv EXCEPT !["B"].pc = "stopped", !["B"].last = "unexpected"]
    /\ UNCHANGED <<app, mode, blocking, batch, budget, faults, snd, disk>>

\* recv, line 77
ALen ==
    /\ rcv["B"].pc = "a_ln"
    /\ CanRead("B", 1)
    /\ chan' = AfterRead("B", 1)
    /\ rcv' = [rcv EXCEPT !["B"].pc = "a_name",
                          !["B"].ln = Unpack(ReadBytes("B", 1))]
    /\ UNCHANGED <<app, mode, blocking, batch, budget, faults, snd, disk>>

\* recv, line 78: the name is decoded strictly
AName ==
    /\ rcv["B"].pc = "a_name"
    /\ CanRead("B", rcv["B"].ln)
    /\ chan' = AfterRead("B", rcv["B"].ln)
    /\ rcv' = IF DecodeFails(ReadBytes("B", rcv["B"].ln))
              THEN [rcv EXCEPT !["B"].pc = "raised", !["B"].ln = 0,
                               !["B"].last = "decode_failed"]
              ELSE [rcv EXCEPT !["B"].pc = "a_size", !["B"].ln = 0,
                               !["B"].name = ReadBytes("B", rcv["B"].ln)]
    /\ UNCHANGED <<app, mode, blocking, batch, budget, faults, snd, disk>>

\* recv, lines 79-87: the size, the OK reply, and the output file opened
ASize ==
    /\ rcv["B"].pc = "a_size"
    /\ CanRead("B", 8)
    /\ ReadThenWrite("B", 8, OK)
    /\ IF OpenFails(rcv["B"].name)
       THEN /\ rcv' = [rcv EXCEPT !["B"].pc = "raised",
                                  !["B"].last = "open_failed"]
            /\ UNCHANGED disk
       ELSE /\ rcv' = [rcv EXCEPT !["B"].pc = "a_peek", !["B"].received = 0,
                                  !["B"].isOpen = TRUE, !["B"].last = "ok"]
            /\ disk' = [disk EXCEPT !["B"] =
                          [n \in DOMAIN @ \cup {rcv["B"].name} |->
                              IF n = rcv["B"].name THEN <<>> ELSE @[n]]]
    /\ UNCHANGED <<app, mode, blocking, batch, budget, snd>>

\* recv, lines 89-93 and 107-110: the 6-byte window of the chunk loop; at
\* DONE the loop is left, the file closed and the file reported
APeek ==
    /\ rcv["B"].pc = "a_peek"
    /\ CanRead("B", 6)
    /\ chan' = AfterRead("B", 6)
    /\ LET hdr2 == ReadBytes("B", 6) IN
       rcv' = IF IsDone(hdr2)
              THEN [rcv EXCEPT !["B"].pc = "stopped", !["B"].isOpen = FALSE,
                               !["B"].closed = Append(@, rcv["B"].name),
                               !["B"].last = "received"]
              ELSE IF Len(hdr2) < 6
              THEN [rcv EXCEPT !["B"].last = "short_chunk_header"]
              ELSE [rcv EXCEPT !["B"].pc = "a_data",
                               !["B"].seq = SubSeq(hdr2, 1, 4),
                               !["B"].length = Unpack(SubSeq(hdr2, 5, 6))]
    /\ UNCHANGED <<app, mode, blocking, batch, budget, faults, snd, disk>>

\* recv, line 94
AData ==
    /\ rcv["B"].pc = "a_data"
    /\ CanRead("B", rcv["B"].length)
    /\ chan' = AfterRead("B", rcv["B"].length)
    /\ rcv' = [rcv EXCEPT !["B"].pc = "a_crc",
                          !["B"].data = ReadBytes("B", rcv["B"].length)]
    /\ UNCHANGED <<app, mode, blocking, batch, budget, faults, snd, disk>>

\* recv, lines 95-105
ACrc ==
    /\ rcv["B"].pc = "a_crc"
    /\ CanRead("B", 4)
    /\ LET crc_raw == ReadBytes("B", 4)
           me == rcv["B"]
       IN IF ~ShortFrame(me.data, me.length, crc_raw) /\ ChecksumOk(me.data, crc_raw)
          THEN /\ ReadThenWrite("B", 4, AckFrame(me.seq))
               /\ disk' = Append2File(disk, "B", me.name, me.data)
               /\ rcv' = [rcv EXCEPT !["B"].pc = "a_peek", !["B"].data = <<>>,
                                     !["B"].seq = <<>>, !["B"].length = 0,
                                     !["B"].received = @ + me.length,
                                     !["B"].written = Append(@, me.seq),
                                     !["B"].acked = Append(@, me.seq),
                                     !["B"].last = "ack"]
          ELSE /\ ReadThenWrite("B", 4, NakFrame(me.seq))
               /\ rcv' = [rcv EXCEPT !["B"].pc = "a_peek", !["B"].data = <<>>,
                                     !["B"].seq = <<>>, !["B"].length = 0,
                                     !["B"].last = "nak"]
               /\ UNCHANGED disk
    /\ UNCHANGED <<app, mode, blocking, batch, budget, snd>>

ARecv == AOpen \/ AMagic \/ ALen \/ AName \/ ASize \/ APeek \/ AData \/ ACrc

InitApp ==
    /\ Start("send")
    /\ Len(batch) = 1
    /\ blocking["A"] /\ blocking["B"]
    /\ budget = MaxFaults

NextApp == Sender \/ ARecv

SpecApp == InitApp /\ [][NextApp]_vars

\* both programs are scheduled whenever they can take a step
FairApp == SpecApp /\ WF_vars(Sender) /\ WF_vars(ARecv)

----------------------------------------------------------------------------

(* A batch of two files from a sender that reads with timeouts, over a     *)
(* sound link, with both threads scheduled whenever they can take a step.  *)

InitBatch ==
    /\ Start("send")
    /\ Len(batch) = 2
    /\ ~blocking["A"]
    /\ budget = 0

SpecBatch == InitBatch /\ [][Next]_vars

FairBatch == SpecBatch /\ WF_vars(Sender) /\ WF_vars(Receiver("B"))

----------------------------------------------------------------------------

(* Stopping the accept loop of machine B: close() on its main thread *)

\* the accept loop thread of machine r is alive (line 49)
Alive(r) == rcv[r].pc \notin {"off", "stopped", "raised"}

\* the positions of _recv_loop that are a ser.read
ReadPcs == {"hdr", "ln", "name", "size", "peek", "rest", "data", "crc"}

\* close(), line 48, entered from the finally of interactive() (line 288)
\* when the main thread is interrupted
CloseSet ==
    /\ app.pc = "run"
    /\ rcv["B"].pc # "off"
    /\ app' = [app EXCEPT !.pc = "join"]
    /\ rcv' = [rcv EXCEPT !["B"].recv_stop = TRUE]
    /\ UNCHANGED <<mode, blocking, batch, budget, chan, faults, snd, disk>>

\* close(), lines 49-50: join(timeout=1) returns when the thread has ended
\* or when the second has passed
CloseJoin ==
    /\ app.pc = "join"
    /\ app' = [app EXCEPT !.pc = "ser_close"]
    /\ UNCHANGED <<mode, blocking, batch, budget, chan, faults, snd, rcv, disk>>

\* close(), line 51: ser.close().  What it does to a read that another
\* thread is blocked in is left to the platform: the read is woken, or it
\* stays blocked
CloseSer ==
    /\ app.pc = "ser_close"
    /\ \E s \in {"closed_wake", "closed_stuck"} :
          app' = [app EXCEPT !.pc = "bye", !.ser = s]
    /\ UNCHANGED <<mode, blocking, batch, budget, chan, faults, snd, rcv, disk>>

\* a ser.read of the accept loop on the closed handle raises, which ends
\* _recv_loop in its except clause (lines 208-212); a read with no timeout
\* that the close did not wake and that no byte reaches does not return
ReadOnClosed(r) ==
    /\ r = "B"
    /\ app.ser # "open"
    /\ rcv[r].pc \in ReadPcs
    /\ app.ser = "closed_wake" \/ ~blocking[r] \/ chan[In(r)] # <<>>
    /\ rcv' = [rcv EXCEPT ![r].pc = "raised", ![r].isOpen = FALSE,
                          ![r].last = "port_closed"]
    /\ UNCHANGED <<app, mode, blocking, batch, budget, chan, faults, snd, disk>>

Closer == CloseSet \/ CloseJoin \/ CloseSer

InitStop ==
    /\ Start("send")
    /\ Len(batch) = 1
    /\ budget = 0

NextStop ==
    \/ Next
    \/ Closer
    \/ \E r \in Machines : ReadOnClosed(r)

SpecStop == InitStop /\ [][NextStop]_vars

\* every thread that can take a step is scheduled
FairStop ==
    /\ SpecStop
    /\ WF_vars(Sender)
    /\ WF_vars(Receiver("B") \/ ReadOnClosed("B"))
    /\ WF_vars(Closer)

----------------------------------------------------------------------------
(* Properties *)

Results == {snd.results[i] : i \in 1..Len(snd.results)}
InputOf(name) == (CHOOSE f \in {batch[i] : i \in 1..Len(batch)} : f.name = name).content
ClosedBy(r) == {rcv[r].closed[i] : i \in 1..Len(rcv[r].closed)}

\* the step of machine r that ends the read of a chunk frame (lines 190-202)
CrcStep(r) == rcv[r].pc = "crc" /\ rcv'[r].pc # "crc"
\* ... of a completely read frame, with its checksum bytes
FullFrame(r) ==
    /\ Len(rcv[r].data) = rcv[r].length
    /\ Len(ReadBytes(r, 4)) = 4
\* machine r writes reply (which the link may damage) in this step
Replies(r, reply) ==
    \E deliv \in LinkOutcomes(reply) : chan'[Out(r)] = chan[Out(r)] \o deliv

\* C1: whenever _send_file has completed a file (DONE written) and the
\* receiver has observed DONE in the session of that name, the sender counted
\* sent = S bytes and the receiver's output file holds exactly the S bytes of
\* the input file, in order.
C1_TransferIntegrity ==
    \A res \in Results :
        (res.outcome = "sent" /\ res.name \in ClosedBy("B")) =>
            /\ res.sent = Len(InputOf(res.name))
            /\ disk["B"][res.name] = InputOf(res.name)

\* C2: a completely read chunk frame whose 4 checksum bytes differ from the
\* CRC-32 of the received payload is answered by NAK with the frame's
\* sequence number, and neither the output file nor `received` changes.
C2_NakOnChecksumMismatch ==
    [][\A r \in Machines :
          (CrcStep(r) /\ FullFrame(r) /\ ReadBytes(r, 4) # crc32(rcv[r].data)) =>
              /\ Replies(r, NAK \o rcv[r].seq)
              /\ disk' = disk
              /\ rcv'[r].received = rcv[r].received]_vars

C2_Witness ==
    /\ rcv["B"].last = "nak_crc"
    /\ rcv["B"].pc = "peek"

\* C3: the sender writes the chunk frame of sequence n only after it has read,
\* for every k < n, a 7-byte reply 'ACK' + k; the sequence numbers it writes
\* never decrease and grow by one at a time.
C3_StopAndWait ==
    [][(snd.pc = "chunk_write" /\ snd'.pc = "ack_read") =>
          /\ snd'.lastWritten \in {snd.lastWritten, snd.lastWritten + 1}
          /\ snd'.lastWritten >= 0
          /\ \A k \in 0..(snd'.lastWritten - 1) : Pack(k, 4) \in snd.acksRead]_vars

C3_Witness ==
    /\ snd.pc = "ack_read"
    /\ snd.lastWritten = 1
    /\ Pack(0, 4) \in snd.acksRead

\* C4: a chunk frame with a valid checksum and a sequence number the receiver
\* has already written and acknowledged in this session is not appended a
\* second time: the output file and `received` stay as they are.
C4_DuplicateNotRewritten ==
    [][\A r \in Machines :
          (/\ CrcStep(r) /\ FullFrame(r)
           /\ ReadBytes(r, 4) = crc32(rcv[r].data)
           /\ \E i \in 1..Len(rcv[r].written) : rcv[r].written[i] = rcv[r].seq) =>
              /\ disk' = disk
              /\ rcv'[r].received = rcv[r].received]_vars

\* C5: within one session every chunk the receiver writes has a sequence
\* number strictly greater than that of the chunk it wrote last.
C5_SequenceMonotonic ==
    [][\A r \in Machines :
          (Len(rcv'[r].written) = Len(rcv[r].written) + 1 /\ rcv[r].written # <<>>) =>
              Less32(rcv[r].written[Len(rcv[r].written)],
                     rcv'[r].written[Len(rcv'[r].written)])]_vars

\* the step of _send_file that reads a chunk reply (lines 100-123)
AckStep == snd.pc = "ack_read" /\ snd'.pc # "ack_read"
\* the step of _send_file that reads a handshake reply (lines 82-87)
OkStep == snd.pc = "hdr_read" /\ snd'.pc # "hdr_read"
LastResult(s) == s.results[Len(s.results)]

\* the accept loop of machine r is idle: scanning for a header, no transfer
\* in progress, no byte on its way
Idle(r) ==
    /\ rcv[r].pc \in {"loop", "hdr"}
    /\ chan[In(r)] = <<>>
    /\ snd.pc = "finished"
Exited(r) == rcv[r].pc \in {"stopped", "raised"}

\* C6: in 'both' mode every byte of a reply to the sender (all the bytes
\* that machine B writes) is taken off the link by a read of _send_file,
\* never by a read of the accept loop of machine A.
C6_RepliesReadBySender ==
    [][Len(chan'["ba"]) < Len(chan["ba"]) => rcv'["A"] = rcv["A"]]_vars

\* C7: once recv_stop is set while the accept loop is idle, the accept loop
\* eventually exits, and it has no output file open.
C7_StopWhileIdle ==
    (Idle("B") /\ rcv["B"].recv_stop) ~> (Exited("B") /\ ~rcv["B"].isOpen)

\* C8: a chunk N whose CHUNK_RETRIES transmissions all go without the reply
\* 'ACK' + N ends the file with the chunk-failure error: no chunk frame of a
\* sequence above N is written for the file, and chunk N is transmitted at
\* most CHUNK_RETRIES times.
C8_ChunkRetriesExhausted ==
    /\ [](snd.chunkWrites <= CHUNK_RETRIES)
    /\ [][(/\ AckStep
           /\ snd.chunkWrites = CHUNK_RETRIES
           /\ ReadBytes("A", 7) # ACK \o Pack(snd.seq, 4)) =>
              /\ snd'.pc = "next"
              /\ snd'.idx = snd.idx + 1
              /\ Len(snd'.results) = Len(snd.results) + 1
              /\ LastResult(snd').outcome = "chunk_failed"
              /\ LastResult(snd').chunkFrames = snd.seq + 1]_vars

\* C9: a file none of whose HEADER_RETRIES header transmissions is answered
\* by 'OK' ends with the handshake failure after exactly HEADER_RETRIES
\* header frames and no chunk frame, and send_files goes on with the next
\* file of the batch.
C9_HandshakeFailure ==
    /\ [](snd.hdrWrites <= HEADER_RETRIES)
    /\ [][(/\ OkStep
           /\ snd.hdrWrites = HEADER_RETRIES
           /\ ReadBytes("A", 2) # OK) =>
              /\ snd'.pc = "next"
              /\ snd'.idx = snd.idx + 1
              /\ Len(snd'.results) = Len(snd.results) + 1
              /\ LastResult(snd').outcome = "no_ok"
              /\ LastResult(snd').hdrWrites = HEADER_RETRIES
              /\ LastResult(snd').chunkFrames = 0]_vars
    /\ [](\A res \in Results :
             res.outcome = "no_ok" =>
                 res.hdrWrites = HEADER_RETRIES /\ res.chunkFrames = 0)

C9_Witness ==
    /\ Len(snd.results) >= 1
    /\ snd.results[1].outcome = "no_ok"
    /\ snd.idx = 2
    /\ snd.pc = "hdr_read"

\* C10: when the receiver has accepted a header and its one OK reply is lost
\* in transit, the sender's header retransmissions still bring it an OK
\* within its retry budget: the file does not end with the handshake failure.
C10_LostOkCompensated ==
    rcv["B"].okLost => \A res \in Results : res.outcome # "no_ok"

\* C11: stray bytes of any length ahead of a header are skipped and the
\* header is recognised: once the sender has written its first header and
\* machine B has read the link down to less than one 4-byte read, machine B
\* is past the 'FILE' magic (reading the header fields, or in the session it
\* opened with OK), neither scanning nor ended.
C11_StrayBytesSkipped ==
    (/\ snd.idx = 1 /\ snd.pc = "hdr_read" /\ snd.hdrWrites = 1
     /\ rcv["B"].pc # "off"
     /\ Len(chan["ab"]) < 4) =>
        rcv["B"].pc \in {"ln", "name", "size", "peek"}

\* C12: when the k-th header attempt (1 <= k <= HEADER_RETRIES) is the first
\* to be answered by 'OK', the sender goes on to the chunk transfer without
\* an error, having written the header exactly k times and no chunk frame.
C12_HandshakeAfterRetries ==
    [][(OkStep /\ ReadBytes("A", 2) = OK) =>
          /\ snd'.pc = "fread"
          /\ snd'.sawOK
          /\ snd.hdrWrites = snd.attempt + 1
          /\ snd.hdrWrites \in 1..HEADER_RETRIES
          /\ snd.lastWritten = -1
          /\ snd.chunkWrites = 0
          /\ snd'.results = snd.results
          /\ snd'.idx = snd.idx]_vars

C12_Witness ==
    /\ snd.pc = "fread"
    /\ snd.sawOK
    /\ snd.hdrWrites = HEADER_RETRIES
    /\ snd.lastWritten = -1

\* the number of chunks of a file of S bytes (lines 93-96)
NumChunks(S) == (S + CHUNK - 1) \div CHUNK
\* the sequence numbers 0 .. n-1 as they appear in replies
SeqsUpTo(n) == [k \in 1..n |-> Pack(k - 1, 4)]
\* no link fault so far, and every reply of every file ended so far was the
\* expected one (OK, and ACK of the current sequence)
CleanRun == faults = 0 /\ \A res \in Results : res.naks = 0 /\ ~res.odd
\* the session machine r closed last is that of the file `name`
LastClosed(r, name) ==
    /\ rcv[r].name = name
    /\ name \in ClosedBy(r)
    /\ rcv[r].pc \in {"loop", "hdr"}
    /\ rcv[r].last = "done"

C14_NakThenAck ==
    \A res \in Results :
        (/\ res.outcome = "sent"
         /\ res.naks >= 1
         /\ ~res.odd
         /\ LastClosed("B", res.name)) =>
            /\ disk["B"][res.name] = InputOf(res.name)
            /\ Len(rcv["B"].acked) = NumChunks(Len(InputOf(res.name)))
            /\ res.chunkFrames = NumChunks(Len(InputOf(res.name)))

C14_Witness ==
    \E res \in Results :
        /\ res.outcome = "sent"
        /\ res.naks = 2
        /\ ~res.odd
        /\ LastClosed("B", res.name)
        /\ Len(rcv["B"].acked) = 2

\* C15: for a file of size 0 the sender, once it has read OK, writes DONE as
\* its next frame and no chunk frame at all, and the receiver, having read
\* that DONE, ends with an empty output file.
C15_EmptyFile ==
    /\ [][(/\ snd.pc \in {"fread", "done_write"}
           /\ snd' # snd
           /\ Len(CurFile.content) = 0) =>
              /\ snd.lastWritten = -1
              /\ snd.pc = "fread" => (snd'.pc = "done_write" /\ chan' = chan)
              /\ snd.pc = "done_write" =>
                    /\ \E deliv \in LinkOutcomes(DONE) :
                          chan'["ab"] = chan["ab"] \o deliv
                    /\ LastResult(snd').outcome = "sent"
                    /\ LastResult(snd').chunkFrames = 0
                    /\ LastResult(snd').sent = 0]_vars
    /\ [](\A res \in Results :
             (/\ res.outcome = "sent"
              /\ Len(InputOf(res.name)) = 0
              /\ LastClosed("B", res.name)) =>
                 disk["B"][res.name] = <<>>)

C15_Witness ==
    \E res \in Results :
        /\ res.outcome = "sent"
        /\ Len(InputOf(res.name)) = 0
        /\ res.chunkFrames = 0
        /\ LastClosed("B", res.name)
        /\ disk["B"][res.name] = <<>>

\* the step of machine r that reads the first 4 bytes of a frame (line 174)
PeekStep(r) == rcv[r].pc = "peek" /\ rcv'[r] # rcv[r]
\* the step of machine r that ends a header by OK and opens the file
OpenStep(r) == rcv[r].pc = "size" /\ rcv'[r].pc = "peek"

\* C16: on DONE in the chunk loop the receiver closes the output file and
\* goes back to header scanning; the next header starts a fresh session, with
\* the byte counter at 0 and a new (empty) output file.
C16_DoneThenNextFile ==
    [][\A r \in Machines :
          /\ (PeekStep(r) /\ ReadBytes(r, 4) = DONE) =>
                /\ rcv'[r].pc = "loop"
                /\ ~rcv'[r].isOpen
                /\ rcv'[r].closed = Append(rcv[r].closed, rcv[r].name)
                /\ disk' = disk
          /\ OpenStep(r) =>
                /\ rcv'[r].received = 0
                /\ rcv'[r].isOpen
                /\ rcv'[r].name \in DOMAIN disk'[r]
                /\ disk'[r][rcv'[r].name] = <<>>
                /\ Replies(r, OK)]_vars

\* two files accepted one after the other by the same accept loop
C16_Witness ==
    /\ Len(rcv["B"].closed) = 2
    /\ rcv["B"].closed[1] # rcv["B"].closed[2]
    /\ rcv["B"].pc = "hdr"
    /\ \A n \in ClosedBy("B") : disk["B"][n] = InputOf(n)
    /\ \E n \in ClosedBy("B") : disk["B"][n] # <<>>

\* C17: a failure inside the accept loop that is not the loss of the link
\* (the output file cannot be opened, a frame cannot be unpacked) leaves the
\* accept loop running: _recv_loop ends by an exception only when the port
\* was closed.
C17_LoopSurvivesFailure ==
    \A r \in Machines : rcv[r].pc = "raised" => rcv[r].last = "port_closed"

\* the step of usb_bridge_transfer.py recv that ends the read of a chunk frame
TCrcStep(r) == rcv[r].pc = "t_crc" /\ rcv'[r].pc # "t_crc"

\* C18: when the payload read returns fewer than `length` bytes or the
\* checksum read fewer than 4, the receiver replies NAK with the sequence of
\* the chunk header, writes nothing, keeps its byte counter, and goes on with
\* its chunk loop without raising.
C18_ShortReadNak ==
    [][\A r \in Machines :
          (/\ CrcStep(r) \/ TCrcStep(r)
           /\ ShortFrame(rcv[r].data, rcv[r].length, ReadBytes(r, 4))) =>
              /\ Replies(r, NAK \o rcv[r].seq)
              /\ disk' = disk
              /\ rcv'[r].received = rcv[r].received
              /\ rcv'[r].pc \in {"peek", "t_peek"}]_vars

\* C19: a chunk reply that is not 'ACK' plus the current sequence (a NAK, an
\* ACK of another sequence, an empty read, a short read, one that begins with
\* 'ACK' included) never advances the sequence and never ends the file by
\* itself: while attempts are left, the sender goes back to writing the same
\* chunk with the same sequence.
C19_RetrySameChunk ==
    [][(/\ AckStep
        /\ ReadBytes("A", 7) # ACK \o Pack(snd.seq, 4)) =>
           /\ snd'.seq = snd.seq
           /\ ~LastAttempt(snd.attempt, CHUNK_RETRIES) =>
                 /\ snd'.pc = "chunk_write"
                 /\ snd'.idx = snd.idx
                 /\ snd'.data = snd.data
                 /\ snd'.results = snd.results]_vars

\* the positions of _recv_loop inside the chunk loop of a file (lines 172-202)
ChunkPcs == {"peek", "rest", "data", "crc"}

\* C20: once recv_stop is set while the accept loop is inside the chunk loop
\* of a file (after OK, before DONE), the accept loop eventually exits, and
\* the step by which it leaves the chunk loop leaves the files on disk as
\* they are.
C20_StopDuringTransfer ==
    /\ (rcv["B"].recv_stop /\ rcv["B"].pc \in ChunkPcs /\ rcv["B"].isOpen)
          ~> Exited("B")
    /\ [][(/\ rcv["B"].recv_stop
           /\ rcv["B"].pc \in ChunkPcs
           /\ Exited("B")') => disk' = disk]_vars

\* the control state of the sender for the file it is at (_send_file, lines
\* 73-132): the handshake loop, the chunk loop up to the DONE write, and how
\* the last call of _send_file ended
Handshake == {"hdr_write", "hdr_read"}
Transferring == {"fread", "chunk_write", "ack_read", "done_write"}
State(s) ==
    IF s.pc \in Handshake THEN "HANDSHAKE"
    ELSE IF s.pc \in Transferring THEN "TRANSFERRING"
    ELSE IF s.results = <<>> THEN "IDLE"
    ELSE IF LastResult(s).outcome = "sent" THEN "COMPLETE" ELSE "FAILED"

\* the step of _send_file that writes DONE (line 126)
DoneStep == snd.pc = "done_write" /\ snd'.pc # "done_write"

\* C21: per file the sender goes IDLE -> HANDSHAKE -> TRANSFERRING ->
\* COMPLETE, or from HANDSHAKE or TRANSFERRING to FAILED when the retry
\* budget of that loop is used up; a retry keeps the state; COMPLETE and
\* FAILED are left only by starting the next file; DONE is written exactly on
\* entering COMPLETE, after every byte of the file was acknowledged.
C21_SenderStateMachine ==
    [][LET a == State(snd)
           b == State(snd')
       IN /\ \/ a = b /\ snd'.idx = snd.idx
             \/ a \in {"IDLE", "COMPLETE", "FAILED"} /\ snd.pc = "next"
                  /\ b = "HANDSHAKE"
             \/ a = "HANDSHAKE" /\ b = "TRANSFERRING"
             \/ a = "TRANSFERRING" /\ b = "COMPLETE"
             \/ a = "HANDSHAKE" /\ b = "FAILED"
                  /\ snd.hdrWrites = HEADER_RETRIES
             \/ a = "TRANSFERRING" /\ b = "FAILED"
                  /\ snd.chunkWrites = CHUNK_RETRIES
          /\ (a # "COMPLETE" /\ b = "COMPLETE") <=> DoneStep
          /\ DoneStep => snd.sent = Len(CurFile.content)]_vars

\* C22: with reads that always return, sending one file of n chunks ends, in
\* COMPLETE or FAILED, after at most HEADER_RETRIES header writes, at most
\* CHUNK_RETRIES writes of each chunk and at most n * CHUNK_RETRIES chunk
\* writes in all, whatever the link delivers.
C22_SendTerminates ==
    /\ <>(snd.pc = "finished" /\ Len(snd.results) = 1
            /\ State(snd) \in {"COMPLETE", "FAILED"})
    /\ [](/\ snd.hdrWrites <= HEADER_RETRIES
          /\ snd.chunkWrites <= CHUNK_RETRIES
          /\ snd.idx = 1 =>
                snd.writes <= NumChunks(Len(CurFile.content)) * CHUNK_RETRIES)

\* a file of two chunks ended after every chunk was written CHUNK_RETRIES times
C22_Witness ==
    /\ snd.pc = "finished"
    /\ Len(batch[1].content) > CHUNK
    /\ snd.writes = NumChunks(Len(batch[1].content)) * CHUNK_RETRIES

\* the accept attempt of machine r has read a header field short (lines 155,
\* 159, 160): the length byte or the size in the read of this step, the name
\* in the read before the size
ShortHeaderRead(r) ==
    \/ rcv[r].pc = "ln" /\ Len(ReadBytes(r, 1)) < 1
    \/ rcv[r].pc = "size" /\ rcv[r].nameShort
    \/ rcv[r].pc = "size" /\ Len(ReadBytes(r, 8)) < 8
\* the step of machine r that ends the read of the length byte or of the size
HeaderStep(r) == rcv[r].pc \in {"ln", "size"} /\ rcv'[r].pc # rcv[r].pc

\* C23: after the magic, when the read of the length byte, of the name or of
\* the size returned fewer bytes than requested, the accept attempt writes
\* nothing to the link (no OK), creates no file, and is back at the top of
\* the loop.
C23_ShortHeaderAborts ==
    [][\A r \in Machines :
          (HeaderStep(r) /\ ShortHeaderRead(r)) =>
              /\ rcv'[r].pc = "loop"
              /\ ~rcv'[r].isOpen
              /\ chan'[Out(r)] = chan[Out(r)]
              /\ disk' = disk]_vars

\* C24: in usb_bridge_app.py, once send has written DONE after the last
\* acknowledged chunk, recv eventually leaves its chunk loop, closes the
\* output file and reports the file as received.
C24_DoneEndsAppRecv ==
    (snd.pc = "finished" /\ LastResult(snd).outcome = "sent" /\ rcv["B"].isOpen)
        ~> (rcv["B"].pc = "stopped" /\ ~rcv["B"].isOpen
               /\ rcv["B"].last = "received")

\* the step of machine r that appends a payload to its output file
AppendStep(r) == rcv[r].isOpen /\ disk'[r] # disk[r]

\* C25: in every state of a session the receiver has sent one ACK for each
\* payload it appended and appended one payload for each ACK it sent, every
\* ACK carrying the sequence of the frame written in the same step, and its
\* counter `received` is the number of bytes in the output file.
C25_AckPerWrite ==
    /\ [](\A r \in Machines :
            /\ rcv[r].acked = rcv[r].written
            /\ rcv[r].isOpen => rcv[r].received = Len(disk[r][rcv[r].name]))
    /\ [][\A r \in Machines :
            /\ AppendStep(r) =>
                  /\ CrcStep(r)
                  /\ Replies(r, ACK \o rcv[r].seq)
                  /\ rcv'[r].acked = Append(rcv[r].acked, rcv[r].seq)
                  /\ disk'[r][rcv[r].name] = disk[r][rcv[r].name] \o rcv[r].data
            /\ (rcv[r].isOpen /\ rcv'[r].isOpen /\ rcv'[r].acked # rcv[r].acked)
                  => AppendStep(r) \/ rcv[r].data = <<>>]_vars

\* a session that has appended two payloads and counted MaxSize bytes
C25_Witness ==
    /\ rcv["B"].isOpen
    /\ Len(rcv["B"].written) = 2
    /\ rcv["B"].received = MaxSize

\* machine r has accepted the header of the file `name`: OK was sent and the
\* session of that name was started
Accepted(r, name) ==
    rcv[r].name = name /\ (rcv[r].isOpen \/ name \in ClosedBy(r))

\* C26: after _send_file has given up the first file of a batch in its chunk
\* loop (no DONE) and send_files has written the header of the next file, the
\* receiver eventually accepts that header.
C26_NextFileAccepted ==
    (/\ snd.idx = 2
     /\ snd.pc = "hdr_read"
     /\ snd.results[1].outcome = "chunk_failed")
        ~> Accepted("B", batch[2].name)

\* C27: close() closes the serial handle only once the accept thread has
\* ended: while the thread of _recv_loop is alive (and so can still read from
\* or write to the handle) the handle is open.
C27_CloseAfterThreadEnded ==
    app.ser # "open" => ~Alive("B")

====
